---- MODULE Spec2Model ----
(***************************************************************************)
(* Task tracker CLI (src/src/index.ts): a JSON file holding an array of    *)
(* tasks, and six commands that each load the whole file, change the       *)
(* in-memory array and write the whole file back.                          *)
(*                                                                         *)
(* Spec          one invocation at a time, starting from an absent file.   *)
(* SpecAddDelete add and delete only, starting from an absent file.        *)
(* SpecAnyFile   one invocation at a time, starting from any file content. *)
(* SpecConc      two invocations interleaved at their awaits (readFile,    *)
(*               writeFile), starting from an absent file.                 *)
(***************************************************************************)
EXTENDS Integers, Sequences, FiniteSets

VARIABLES
    file,       \* content of TASKS_FILE: [kind, tasks]
    now,        \* the system clock, in ticks (what new Date() reads)
    out,        \* what the running invocation reported, and whether it saved
    assigned,   \* history: the ids addTask has handed out so far
    removed,    \* history: some deleteTask has removed a task
    procs       \* SpecConc: the position and locals of each running invocation

vars == <<file, now, out, assigned, removed, procs>>

(***************************************************************************)
(* Bounds of the model.                                                    *)
(***************************************************************************)
MaxTasks == 2
MaxId == 3
MaxClock == 1

\* SpecAddDelete: add and delete only, with room for one more task and id.
MaxTasksAD == 3
MaxIdAD == 4

Descriptions == {"a", "b"}
Procs == {1, 2}

(***************************************************************************)
(* Values.                                                                 *)
(***************************************************************************)
TaskStatus == {"todo", "in-progress", "done"}

\* new Date().toISOString(): a fixed-width, zero-padded rendering, so that the
\* strings order as the instants do. Two digits stand for the 24 characters.
toISOString(t) == <<(t \div 10) % 10, t % 10>>

\* The order of JavaScript strings (code unit by code unit), on renderings.
StrLess(a, b) == \E i \in 1..Len(a) :
                     /\ i <= Len(b)
                     /\ \A j \in 1..(i - 1) : a[j] = b[j]
                     /\ a[i] < b[i]

StrLeq(a, b) == a = b \/ StrLess(a, b)

Task(id, description, status, createdAt, updatedAt) ==
    [id |-> id, description |-> description, status |-> status,
     createdAt |-> createdAt, updatedAt |-> updatedAt]

\* File contents. "absent": no file (readFile rejects); "invalid": text that
\* JSON.parse rejects; "object", "null": the JSON texts {} and null; "array": a
\* JSON array of task objects.
AbsentFile == [kind |-> "absent", tasks |-> <<>>]
InvalidFile == [kind |-> "invalid", tasks |-> <<>>]
ObjectFile == [kind |-> "object", tasks |-> <<>>]
NullFile == [kind |-> "null", tasks |-> <<>>]
ArrayFile(tasks) == [kind |-> "array", tasks |-> tasks]

Ids(tasks) == {tasks[i].id : i \in 1..Len(tasks)}
IdSeq(tasks) == [i \in 1..Len(tasks) |-> tasks[i].id]
Max(S) == CHOOSE m \in S : \A x \in S : x <= m

(***************************************************************************)
(* Store.                                                                  *)
(***************************************************************************)
\* loadTasks: the parsed value, or [] when readFile or JSON.parse throws.
\* The result is a JavaScript value: [kind |-> "array", ...] for an array, and
\* kind "object" or "null" for a parsed value that is no array.
loadTasks(f) ==
    IF f.kind \in {"absent", "invalid"} THEN [kind |-> "array", tasks |-> <<>>]
    ELSE [kind |-> f.kind, tasks |-> f.tasks]

\* A property read or method call (length, map, find, findIndex, filter, push,
\* forEach) on the loaded value throws a TypeError unless it is an array.
IsArray(v) == v.kind = "array"

\* A faulty save: appendFile instead of writeFile. JSON text after JSON text
\* does not parse.
saveTasks_append(f, tasks) ==
    IF f.kind = "absent" THEN ArrayFile(tasks) ELSE InvalidFile

\* saveTasks: the content of the file after writeFile, given its content f
\* before: the whole file is replaced.
saveTasks(f, tasks) == ArrayFile(tasks)

(***************************************************************************)
(* The in-memory changes of the handlers.                                  *)
(***************************************************************************)
\* Faulty variants of getNextId: the greatest id again, and the count plus one.
getNextId_noIncrement(tasks) ==
    IF Len(tasks) = 0 THEN 1 ELSE Max(Ids(tasks))

getNextId_count(tasks) == Len(tasks) + 1

getNextId(tasks) ==
    IF Len(tasks) = 0 THEN 1 ELSE Max(Ids(tasks)) + 1

\* addTask, lines 39-48: the array after the push.
pushTask(tasks, description, t) ==
    Append(tasks, Task(getNextId(tasks), description, "todo",
                       toISOString(t), toISOString(t)))

\* findIndex / find: the first index whose task has the id, 0 for none.
findIndex(tasks, id) ==
    IF \E i \in 1..Len(tasks) : tasks[i].id = id
    THEN CHOOSE i \in 1..Len(tasks) :
             /\ tasks[i].id = id
             /\ \A j \in 1..(i - 1) : tasks[j].id # id
    ELSE 0

\* A faulty updateTask that also resets createdAt.
setDescription_touchCreated(tasks, i, newDescription, t) ==
    [tasks EXCEPT ![i].description = newDescription,
                  ![i].createdAt = toISOString(t),
                  ![i].updatedAt = toISOString(t)]

\* updateTask, lines 60-61.
setDescription(tasks, i, newDescription, t) ==
    [tasks EXCEPT ![i].description = newDescription,
                  ![i].updatedAt = toISOString(t)]

\* Faulty variants of the filter: the test inverted, and the kept tasks
\* renumbered from 1.
filterOut_keepMatching(tasks, id) == SelectSeq(tasks, LAMBDA x : x.id = id)

filterOut_renumber(tasks, id) ==
    LET kept == SelectSeq(tasks, LAMBDA x : x.id # id)
    IN  [i \in 1..Len(kept) |-> [kept[i] EXCEPT !.id = i]]

\* deleteTask, line 68.
filterOut(tasks, id) == SelectSeq(tasks, LAMBDA x : x.id # id)

\* Faulty variants of markStatus: marking the same status again resets the
\* task to todo, and the mark applied to every task.
setStatus_toggle(tasks, i, status, t) ==
    [tasks EXCEPT ![i].status = IF tasks[i].status = status THEN "todo" ELSE status,
                  ![i].updatedAt = toISOString(t)]

setStatus_all(tasks, i, status, t) ==
    [j \in 1..Len(tasks) |-> [tasks[j] EXCEPT !.status = status,
                                              !.updatedAt = toISOString(t)]]

\* markStatus, lines 80-81.
setStatus(tasks, i, status, t) ==
    [tasks EXCEPT ![i].status = status,
                  ![i].updatedAt = toISOString(t)]

\* listTasks, lines 88-90: the tasks to print.
filterStatus(tasks, filter) ==
    IF filter = "" THEN tasks ELSE SelectSeq(tasks, LAMBDA x : x.status = filter)

(***************************************************************************)
(* Command line.                                                           *)
(***************************************************************************)
DigitChars == <<"0", "1", "2", "3", "4", "5", "6", "7", "8", "9">>

IsDigit(c) == \E d \in 1..Len(DigitChars) : DigitChars[d] = c
DigitVal(c) == (CHOOSE d \in 1..Len(DigitChars) : DigitChars[d] = c) - 1

RECURSIVE parseDigits(_, _, _)
parseDigits(s, i, acc) ==
    IF i > Len(s) \/ ~IsDigit(s[i]) THEN acc
    ELSE parseDigits(s, i + 1, acc * 10 + DigitVal(s[i]))

\* parseInt: an optional sign, then the longest prefix of digits; NaN when
\* there is no digit. An argument is a sequence of characters.
parseInt(s) ==
    LET neg == Len(s) > 0 /\ s[1] = "-"
        start == IF neg THEN 2 ELSE 1
    IN  IF start > Len(s) \/ ~IsDigit(s[start])
        THEN [nan |-> TRUE, val |-> 0]
        ELSE [nan |-> FALSE,
              val |-> IF neg THEN 0 - parseDigits(s, start, 0)
                      ELSE parseDigits(s, start, 0)]

\* The id arguments tried: every id in use, a negative number and a word.
IdArgs == {<<DigitChars[n + 1]>> : n \in 1..MaxId}
              \cup {<<"x">>, <<"-", "1">>}

StatusArgs == TaskStatus \cup {"bogus"}

\* process.argv.slice(2), by first word.
AddArgs == {<<"add">>} \cup {<<"add", d>> : d \in Descriptions}
UpdateArgs == {<<"update">>} \cup {<<"update", a>> : a \in IdArgs}
                  \cup {<<"update", a, d>> : a \in IdArgs, d \in Descriptions}
IdCmdArgs(c) == {<<c>>} \cup {<<c, a>> : a \in IdArgs}
ListArgs == {<<"list">>, <<"list", "todo", "done">>}
                \cup {<<"list", s>> : s \in StatusArgs}
UnknownArgs == {<<"frobnicate">>}

(***************************************************************************)
(* What the running invocation has reported. res: "ok" the success line on *)
(* stdout, "notfound" / "usage" an error line on stderr, "listed" /        *)
(* "empty" the output of list, "throw" an uncaught TypeError. wrote:       *)
(* saveTasks ran. NoResult: no invocation is running.                      *)
(***************************************************************************)
Result(cmd, res, id, wrote) == [cmd |-> cmd, res |-> res, id |-> id, wrote |-> wrote]
NoResult == Result("", "", 0, FALSE)

\* An invocation that ends before or without saveTasks.
Report(cmd, res, id) ==
    /\ out' = Result(cmd, res, id, FALSE)
    /\ UNCHANGED <<file, now, assigned, removed, procs>>

(***************************************************************************)
(* Handlers, one invocation at a time: load, change, save, report.         *)
(***************************************************************************)
addTask(description) ==
    LET loaded == loadTasks(file)
    IN  IF ~IsArray(loaded) THEN Report("add", "throw", 0)
        ELSE /\ file' = saveTasks(file, pushTask(loaded.tasks, description, now))
             /\ out' = Result("add", "ok", getNextId(loaded.tasks), TRUE)
             /\ assigned' = assigned \cup {getNextId(loaded.tasks)}
             /\ UNCHANGED <<now, removed, procs>>

updateTask(id, newDescription) ==
    LET loaded == loadTasks(file)
    IN  IF ~IsArray(loaded) THEN Report("update", "throw", id)
        ELSE LET taskIndex == findIndex(loaded.tasks, id)
             IN  IF taskIndex = 0 THEN Report("update", "notfound", id)
                 ELSE /\ file' = saveTasks(file, setDescription(loaded.tasks, taskIndex,
                                                                newDescription, now))
                      /\ out' = Result("update", "ok", id, TRUE)
                      /\ UNCHANGED <<now, assigned, removed, procs>>

deleteTask(id) ==
    LET loaded == loadTasks(file)
    IN  IF ~IsArray(loaded) THEN Report("delete", "throw", id)
        ELSE LET newTasks == filterOut(loaded.tasks, id)
             IN  /\ file' = saveTasks(file, newTasks)
                 /\ out' = Result("delete", "ok", id, TRUE)
                 /\ removed' = (removed \/ Len(newTasks) < Len(loaded.tasks))
                 /\ UNCHANGED <<now, assigned, procs>>

markStatus(id, status) ==
    LET loaded == loadTasks(file)
        cmd == "mark-" \o status
    IN  IF ~IsArray(loaded) THEN Report(cmd, "throw", id)
        ELSE LET i == findIndex(loaded.tasks, id)
             IN  IF i = 0 THEN Report(cmd, "notfound", id)
                 ELSE /\ file' = saveTasks(file, setStatus(loaded.tasks, i, status, now))
                      /\ out' = Result(cmd, "ok", id, TRUE)
                      /\ UNCHANGED <<now, assigned, removed, procs>>

\* filter "" is the null of listTasks().
listTasks(filter) ==
    LET loaded == loadTasks(file)
    IN  IF ~IsArray(loaded) THEN Report("list", "throw", 0)
        ELSE IF Len(filterStatus(loaded.tasks, filter)) = 0
             THEN Report("list", "empty", 0)
             ELSE Report("list", "listed", 0)

(***************************************************************************)
(* main: one action per case of the switch. An invocation starts when no   *)
(* other is running.                                                       *)
(***************************************************************************)
NoneRunning == out = NoResult /\ \A p \in Procs : procs[p].pc = "idle"

\* The model stops adding when the collection holds n tasks or the next id
\* would exceed m.
Room(tasks, n, m) == Len(tasks) < n /\ getNextId(tasks) <= m

add(n, m) ==
    /\ NoneRunning
    /\ IsArray(loadTasks(file)) => Room(loadTasks(file).tasks, n, m)
    /\ \E args \in AddArgs :
           IF Len(args) < 2 THEN Report("add", "usage", 0)
           ELSE addTask(args[2])

MainNoArgs == NoneRunning /\ Report("", "usage", 0)

MainAdd == add(MaxTasks, MaxId)

MainUpdate ==
    /\ NoneRunning
    /\ \E args \in UpdateArgs :
           IF Len(args) < 3 THEN Report("update", "usage", 0)
           ELSE IF parseInt(args[2]).nan THEN Report("update", "usage", 0)
           ELSE updateTask(parseInt(args[2]).val, args[3])

MainDelete ==
    /\ NoneRunning
    /\ \E args \in IdCmdArgs("delete") :
           IF Len(args) < 2 THEN Report("delete", "usage", 0)
           ELSE IF parseInt(args[2]).nan THEN Report("delete", "usage", 0)
           ELSE deleteTask(parseInt(args[2]).val)

MainMarkInProgress ==
    /\ NoneRunning
    /\ \E args \in IdCmdArgs("mark-in-progress") :
           IF Len(args) < 2 THEN Report("mark-in-progress", "usage", 0)
           ELSE IF parseInt(args[2]).nan THEN Report("mark-in-progress", "usage", 0)
           ELSE markStatus(parseInt(args[2]).val, "in-progress")

MainMarkDone ==
    /\ NoneRunning
    /\ \E args \in IdCmdArgs("mark-done") :
           IF Len(args) < 2 THEN Report("mark-done", "usage", 0)
           ELSE IF parseInt(args[2]).nan THEN Report("mark-done", "usage", 0)
           ELSE markStatus(parseInt(args[2]).val, "done")

MainList ==
    /\ NoneRunning
    /\ \E args \in ListArgs :
           IF Len(args) = 1 THEN listTasks("")
           ELSE IF Len(args) = 2
                THEN IF args[2] \notin TaskStatus THEN Report("list", "usage", 0)
                     ELSE listTasks(args[2])
                ELSE Report("list", "usage", 0)

MainUnknown ==
    /\ NoneRunning
    /\ \E args \in UnknownArgs : Report(args[1], "usage", 0)

\* await main() returns (or rejects) and the process ends.
Exit ==
    /\ out # NoResult
    /\ out' = NoResult
    /\ UNCHANGED <<file, now, assigned, removed, procs>>

\* Time passes between invocations; the clock does not go back.
Tick ==
    /\ out = NoResult
    /\ now < MaxClock
    /\ now' = now + 1
    /\ UNCHANGED <<file, out, assigned, removed, procs>>

IdleProc == [pc |-> "idle", cmd |-> "", id |-> 0, tasks |-> <<>>, res |-> ""]

Init ==
    /\ file = AbsentFile
    /\ now = 0
    /\ out = NoResult
    /\ assigned = {}
    /\ removed = FALSE
    /\ procs = [p \in Procs |-> IdleProc]

Next ==
    \/ MainNoArgs
    \/ MainAdd
    \/ MainUpdate
    \/ MainDelete
    \/ MainMarkInProgress
    \/ MainMarkDone
    \/ MainList
    \/ MainUnknown
    \/ Exit
    \/ Tick

Spec == Init /\ [][Next]_vars

(***************************************************************************)
(* SpecAddDelete: sequences of add and delete commands on an empty store.  *)
(***************************************************************************)
AddDeleteAdd == add(MaxTasksAD, MaxIdAD)

NextAddDelete ==
    \/ AddDeleteAdd
    \/ MainDelete
    \/ Exit

SpecAddDelete == Init /\ [][NextAddDelete]_vars

(***************************************************************************)
(* SpecAnyFile: one invocation at a time, whatever the file holds at first.*)
(***************************************************************************)
InitAnyFile ==
    /\ file \in {AbsentFile, InvalidFile, ObjectFile, NullFile, ArrayFile(<<>>)}
    /\ now = 0
    /\ out = NoResult
    /\ assigned = {}
    /\ removed = FALSE
    /\ procs = [p \in Procs |-> IdleProc]

SpecAnyFile == InitAnyFile /\ [][Next]_vars

(***************************************************************************)
(* SpecConc: two invocations against the same file. An invocation is       *)
(* suspended at its two awaits only: readFile (in loadTasks) and writeFile *)
(* (in saveTasks). What a handler does between them runs without           *)
(* interruption; each file operation takes effect at once. The             *)
(* invocations tried are add, update, delete and list (markStatus differs  *)
(* from updateTask in the field it sets only), all within one reading of   *)
(* the clock: no handler branches on the time.                             *)
(***************************************************************************)
Proc(pc, cmd, id, tasks, res) ==
    [pc |-> pc, cmd |-> cmd, id |-> id, tasks |-> tasks, res |-> res]

\* The handler of p stops: it reports res without calling saveTasks.
Ends(p, cmd, id, res) ==
    /\ procs' = [procs EXCEPT ![p] = Proc("done", cmd, id, <<>>, res)]
    /\ UNCHANGED <<file, now, out, assigned, removed>>

\* The handler of p calls saveTasks(tasks) and waits for writeFile.
Saves(p, cmd, id, tasks) ==
    /\ procs' = [procs EXCEPT ![p] = Proc("saving", cmd, id, tasks, "")]
    /\ UNCHANGED <<file, now, out>>

\* readFile of addTask resolves: lines 38-49 up to the await.
LoadAdd(p, description) ==
    LET loaded == loadTasks(file)
    IN  IF ~IsArray(loaded) THEN Ends(p, "add", 0, "throw")
        ELSE /\ Room(loaded.tasks, MaxTasks, MaxId)
             /\ Saves(p, "add", getNextId(loaded.tasks),
                      pushTask(loaded.tasks, description, now))
             /\ assigned' = assigned \cup {getNextId(loaded.tasks)}
             /\ UNCHANGED removed

\* readFile of updateTask resolves: lines 54-62 up to the await.
LoadUpdate(p, id, newDescription) ==
    LET loaded == loadTasks(file)
    IN  IF ~IsArray(loaded) THEN Ends(p, "update", id, "throw")
        ELSE LET taskIndex == findIndex(loaded.tasks, id)
             IN  IF taskIndex = 0 THEN Ends(p, "update", id, "notfound")
                 ELSE /\ Saves(p, "update", id,
                               setDescription(loaded.tasks, taskIndex, newDescription, now))
                      /\ UNCHANGED <<assigned, removed>>

\* readFile of deleteTask resolves: lines 67-69 up to the await.
LoadDelete(p, id) ==
    LET loaded == loadTasks(file)
    IN  IF ~IsArray(loaded) THEN Ends(p, "delete", id, "throw")
        ELSE /\ Saves(p, "delete", id, filterOut(loaded.tasks, id))
             /\ removed' = (removed \/ Len(filterOut(loaded.tasks, id)) < Len(loaded.tasks))
             /\ UNCHANGED assigned

\* readFile of listTasks resolves: lines 87-101.
LoadList(p, filter) ==
    LET loaded == loadTasks(file)
    IN  IF ~IsArray(loaded) THEN Ends(p, "list", 0, "throw")
        ELSE IF Len(filterStatus(loaded.tasks, filter)) = 0
             THEN Ends(p, "list", 0, "empty")
             ELSE Ends(p, "list", 0, "listed")

\* An invocation starts and its readFile resolves.
ConcLoad ==
    \E p \in Procs :
        /\ procs[p].pc = "idle"
        /\ \/ \E d \in Descriptions : LoadAdd(p, d)
           \/ \E id \in 1..MaxId, d \in Descriptions : LoadUpdate(p, id, d)
           \/ \E id \in 1..MaxId : LoadDelete(p, id)
           \/ \E filter \in TaskStatus \cup {""} : LoadList(p, filter)

\* writeFile resolves and the handler reports success.
ConcSave ==
    \E p \in Procs :
        /\ procs[p].pc = "saving"
        /\ file' = saveTasks(file, procs[p].tasks)
        /\ procs' = [procs EXCEPT ![p].pc = "done", ![p].res = "ok"]
        /\ UNCHANGED <<now, out, assigned, removed>>

\* The process ends.
ConcExit ==
    \E p \in Procs :
        /\ procs[p].pc = "done"
        /\ procs' = [procs EXCEPT ![p] = IdleProc]
        /\ UNCHANGED <<file, now, out, assigned, removed>>

NextConc ==
    \/ ConcLoad
    \/ ConcSave
    \/ ConcExit

SpecConc == Init /\ [][NextConc]_vars

(***************************************************************************)
(* Properties.                                                             *)
(***************************************************************************)
\* The collection an invocation would load from file content f.
Collection(f) == IF IsArray(loadTasks(f)) THEN loadTasks(f).tasks ELSE <<>>

\* The task of collection tasks that has the id (there is one).
TaskOf(tasks, id) == tasks[CHOOSE i \in 1..Len(tasks) : tasks[i].id = id]

MarkCmds == {"mark-in-progress", "mark-done"}

\* This step is an invocation of cmd that passed the argument checks of main.
Ran(cmd) == out = NoResult /\ out'.cmd = cmd /\ out'.res # "usage"

\* This step is an invocation of cmd that reported success.
Succeeded(cmd) == Ran(cmd) /\ out'.res = "ok"

PairwiseDistinct(tasks) ==
    \A i, j \in 1..Len(tasks) : i # j => tasks[i].id # tasks[j].id

\* C1: from an absent file, after any sequence of commands run one at a time,
\* the ids of the saved tasks are pairwise distinct positive integers.
C1_IdsDistinctPositive ==
    /\ file.kind \in {"absent", "array"}
    /\ PairwiseDistinct(file.tasks)
    /\ \A i \in 1..Len(file.tasks) : file.tasks[i].id \in Nat \ {0}

\* Two tasks saved by an add that followed a removal.
C1_Witness ==
    /\ Len(file.tasks) = 2
    /\ removed
    /\ out.cmd = "add" /\ out.res = "ok"

\* No command changes the id of a task that stays in the collection: the ids,
\* in order, are the previous ones, or those with one appended, or those
\* without the deleted id.
NoRenumbering ==
    LET old == IdSeq(Collection(file))
        new == IdSeq(Collection(file'))
    IN  \/ file' = file
        \/ new = old
        \/ Succeeded("add") /\ new = Append(old, out'.id)
        \/ Succeeded("delete") /\ new = SelectSeq(old, LAMBDA x : x # out'.id)

\* C2 as claimed: the id add assigns was never assigned before, also not to a
\* task deleted since; and no command changes an existing task's id.
C2_NeverReused ==
    [][/\ Succeeded("add") => out'.id \notin assigned
       /\ NoRenumbering]_vars

\* C2 as the code has it: the id add assigns is greater than the id of every
\* task in the collection it loaded (so it is none of theirs); and no command
\* changes an existing task's id.
C2_NewIdAboveCurrent ==
    [][/\ Succeeded("add") =>
              \A x \in Ids(Collection(file)) : out'.id > x
       /\ NoRenumbering]_vars

\* An add after which every id ever assigned is in the collection although a
\* task was removed: the removed id was assigned again.
C2_Witness ==
    /\ out.cmd = "add" /\ out.res = "ok"
    /\ removed
    /\ assigned = Ids(file.tasks)

\* C5: delete of an id no task has reports success and leaves the collection
\* as it was: the same tasks, field by field, in the same order.
C5_DeleteMissingIsNoop ==
    [][(Ran("delete") /\ out'.id \notin Ids(Collection(file))) =>
           /\ out'.res = "ok"
           /\ Collection(file') = Collection(file)]_vars

\* A delete reported success on a collection of two tasks from which no task
\* was ever removed.
C5_Witness ==
    /\ out.cmd = "delete" /\ out.res = "ok"
    /\ ~removed
    /\ Len(file.tasks) = 2

\* A successful update or mark of task id, with its timestamps compared by Cmp.
Touches(id, Cmp(_, _)) ==
    LET before == TaskOf(Collection(file), id)
        after == TaskOf(Collection(file'), id)
    IN  /\ after.createdAt = before.createdAt
        /\ Cmp(before.updatedAt, after.updatedAt)

FreshTask ==
    LET new == TaskOf(Collection(file'), out'.id)
    IN  new.createdAt = new.updatedAt

\* C6 as claimed: a successful update or mark keeps createdAt and sets
\* updatedAt strictly greater than before; a fresh task has createdAt =
\* updatedAt. The clock (now) never goes back.
C6_UpdatedAtStrictlyGreater ==
    [][/\ \A c \in {"update"} \cup MarkCmds :
              Succeeded(c) => Touches(out'.id, StrLess)
       /\ Succeeded("add") => FreshTask]_vars

\* C6 as the code has it: updatedAt is never less than before (equal when the
\* clock reads the same instant again).
C6_UpdatedAtNotLess ==
    [][/\ \A c \in {"update"} \cup MarkCmds :
              Succeeded(c) => Touches(out'.id, StrLeq)
       /\ Succeeded("add") => FreshTask]_vars

\* An update or mark after which the task's updatedAt is later than its
\* createdAt.
C6_Witness ==
    /\ out.cmd \in {"update"} \cup MarkCmds
    /\ out.res = "ok"
    /\ LET t == TaskOf(file.tasks, out.id)
       IN  StrLess(t.createdAt, t.updatedAt)

Others(tasks, id) == SelectSeq(tasks, LAMBDA x : x.id # id)

\* C10: update and mark change only their target and keep the order of ids;
\* delete removes exactly the tasks with the id and keeps the others as they
\* were, in order; add appends and keeps the others; list does not write.
C10_Frame ==
    [][LET old == Collection(file)
           new == Collection(file')
       IN  /\ \A c \in {"update"} \cup MarkCmds :
                  Succeeded(c) =>
                      /\ Others(new, out'.id) = Others(old, out'.id)
                      /\ IdSeq(new) = IdSeq(old)
           /\ Succeeded("delete") =>
                  /\ out'.id \notin Ids(new)
                  /\ new = Others(old, out'.id)
           /\ Succeeded("add") =>
                  /\ Len(new) = Len(old) + 1
                  /\ SubSeq(new, 1, Len(old)) = old
                  /\ new[Len(new)].id = out'.id
           /\ Ran("list") => (~out'.wrote /\ file' = file)]_vars

\* An update succeeded on the first of two tasks.
C10_Witness ==
    /\ out.cmd = "update" /\ out.res = "ok"
    /\ Len(file.tasks) = 2
    /\ file.tasks[1].id = out.id

\* C3: add assigns 1 to the first task of an empty collection and otherwise
\* the greatest id in the collection plus one, and appends the task; as long
\* as nothing was removed the ids are 1, 2, ..., n in order; and with ids 1
\* and 3 left of 1, 2, 3 the next add assigns 4.
C3_NextIdIsMaxPlusOne ==
    [][/\ Succeeded("add") =>
              /\ out'.id = (IF Len(Collection(file)) = 0 THEN 1
                            ELSE Max(Ids(Collection(file))) + 1)
              /\ IdSeq(Collection(file')) = Append(IdSeq(Collection(file)), out'.id)
       /\ ~removed' =>
              IdSeq(Collection(file')) = [i \in 1..Len(Collection(file')) |-> i]
       /\ (Succeeded("add") /\ IdSeq(Collection(file)) = <<1, 3>>) => out'.id = 4]_vars

\* Tasks 1, 2, 3, then delete 2, then add: the new task has id 4.
C3_Witness ==
    /\ out.cmd = "add" /\ out.res = "ok" /\ out.id = 4
    /\ IdSeq(file.tasks) = <<1, 3, 4>>
    /\ assigned = {1, 2, 3, 4}

\* C4: update or mark of an id no task has reports not-found, does not save,
\* creates no task and leaves the file as it was, whatever the file held.
C4_NotFoundLeavesFile ==
    [][\A c \in {"update"} \cup MarkCmds :
           (Ran(c) /\ out'.id \notin Ids(Collection(file))) =>
               /\ out'.res = "notfound"
               /\ ~out'.wrote
               /\ file' = file]_vars

\* C7: whatever the file holds that is not an array of tasks, loadTasks
\* returns an empty array, and list prints "No tasks found." and does not throw.
C7_LoadNeverFails ==
    (out.cmd = "list" /\ out.res # "usage" /\ file.kind # "array") =>
        /\ loadTasks(file) = [kind |-> "array", tasks |-> <<>>]
        /\ out.res = "empty"

\* The array an add loaded, from the array it saves.
Loaded(pr) == SubSeq(pr.tasks, 1, Len(pr.tasks) - 1)

AddDone(pr) == pr.pc = "done" /\ pr.cmd = "add" /\ pr.res = "ok"

\* C8: the ids in the file stay pairwise distinct; and when two adds have both
\* reported success, the file is what one of them saved: if both loaded the
\* same collection they assigned the same id and the file holds exactly one
\* of the two new tasks.
C8_LastWriteWins ==
    /\ file.kind \in {"absent", "array"}
    /\ PairwiseDistinct(file.tasks)
    /\ \A p, q \in Procs :
           (p # q /\ AddDone(procs[p]) /\ AddDone(procs[q])) =>
               /\ file.tasks \in {procs[p].tasks, procs[q].tasks}
               /\ Loaded(procs[p]) = Loaded(procs[q]) =>
                      /\ procs[p].id = procs[q].id
                      /\ Len(file.tasks) = Len(Loaded(procs[p])) + 1

\* Two adds of different descriptions loaded the same collection, both
\* reported success, and the file holds the task of one and not of the other.
C8_Witness ==
    \E p, q \in Procs :
        /\ p # q /\ AddDone(procs[p]) /\ AddDone(procs[q])
        /\ ~removed
        /\ Loaded(procs[p]) = Loaded(procs[q])
        /\ procs[p].id = procs[q].id
        /\ procs[p].tasks # procs[q].tasks
        /\ file.tasks = procs[p].tasks
        /\ \A i \in 1..Len(file.tasks) :
               file.tasks[i] # procs[q].tasks[Len(procs[q].tasks)]

====
